---- MODULE Spec2Model ----
(***************************************************************************)
(* Hospital-bed booking server: the in-memory store (server/storage.ts),   *)
(* the directory sync (server/services/hospitalApi.ts) and the REST        *)
(* handlers (server/routes.ts).                                            *)
(*                                                                         *)
(* Every Map of MemStorage is a function from the ids it holds to records. *)
(* Ids are handed out by increasing counters and nothing is ever deleted,  *)
(* so the Map's iteration order (insertion order) is the order of the ids: *)
(* Array.from(map.values()).find(p) is the record of the least id that     *)
(* satisfies p.  A lookup that returns undefined returns id 0 here (the    *)
(* counters start at 1).                                                   *)
(***************************************************************************)
EXTENDS Integers, Sequences, FiniteSets, TLC

VARIABLES
  storage,    \* the MemStorage singleton: its five Maps and five counters
  sessions,   \* the session store: the serialized passport user of each live session
  apiKey,     \* apiConfig.apiKey
  calls,      \* directory-sync calls suspended on the external source
  listing,    \* the body of the latest response to GET /api/hospitals
  bedListing, \* the body of the latest response 200 to GET /api/hospitals/:hospitalId/beds
  requests,   \* POST /api/bookings requests in service, each at one of its awaits
  running     \* the request whose continuations the event loop is running, 0 if none

vars == <<storage, sessions, apiKey, calls, listing, bedListing, requests, running>>

(***************************************************************************)
(* Bounds of the model.                                                    *)
(***************************************************************************)
MaxTotal == 2       \* largest bed count a form or a remote payload carries
MaxBookings == 2    \* booking records created in one run
MaxBeds == 2        \* bed records created in one run
MaxHospitals == 3   \* hospital records created in one run
MaxCalls == 1       \* directory-sync calls in flight at once
MaxRequests == 2    \* booking requests followed await by await in one run
OverlappingCalls == 2 \* directory-sync calls in flight at once in the overlap runs
ScenarioBeds == 5   \* the bed count of the booking scenario

(***************************************************************************)
(* Strings.  The code compares names through String.toLowerCase; the       *)
(* names of the model are the ones below.                                  *)
(***************************************************************************)
toLowerCase(s) ==
  CASE s = "hospital_A" -> "hospital_a"
    [] s = "ICU"        -> "icu"
    [] s = "General"    -> "general"
    [] s = "Emergency"  -> "emergency"
    [] s = "Pediatric"  -> "pediatric"
    [] s = "Maternity"  -> "maternity"
    [] s = "Burn"       -> "burn"
    [] s = "A"          -> "a"
    [] OTHER            -> s

Min(S) == CHOOSE m \in S : \A k \in S : m <= k

\* Map.set(id, rec)
MapSet(map, id, rec) ==
  [k \in (DOMAIN map) \cup {id} |-> IF k = id THEN rec ELSE map[k]]

\* Array.from(map.values()).find(p), S the ids of the records that satisfy p:
\* the id of the first match, 0 if none
MapFind(S) == IF S = {} THEN 0 ELSE Min(S)

\* Array.from(map.values()).filter(p), in insertion order
RECURSIVE IdsInOrder(_)
IdsInOrder(S) ==
  IF S = {} THEN <<>>
  ELSE LET m == Min(S) IN <<m>> \o IdsInOrder(S \ {m})

\* S the ids of the records that satisfy p
MapFilter(map, S) ==
  LET ids == IdsInOrder(S)
  IN  [i \in 1..Len(ids) |-> map[ids[i]]]

(***************************************************************************)
(* MemStorage                                                              *)
(***************************************************************************)
EmptyMap == [k \in {} |-> 0]

defaultBedTypes == <<"ICU", "General", "Emergency", "Pediatric", "Maternity">>

\* the object after `new MemStorage()`
MemStorage ==
  [ users     |-> (1 :> [id |-> 1, username |-> "admin", password |-> "admin123",
                         role |-> "admin"]),
    hospitals |-> EmptyMap,
    bedTypes  |-> [i \in 1..Len(defaultBedTypes) |->
                     [id |-> i, name |-> defaultBedTypes[i]]],
    beds      |-> EmptyMap,
    bookings  |-> EmptyMap,
    userCurrentId     |-> 2,
    hospitalCurrentId |-> 1,
    bedTypeCurrentId  |-> Len(defaultBedTypes) + 1,
    bedCurrentId      |-> 1,
    bookingCurrentId  |-> 1 ]

getUser(st, id) == IF id \in DOMAIN st.users THEN id ELSE 0

getUserByUsername(st, username) ==
  MapFind({k \in DOMAIN st.users :
             toLowerCase(st.users[k].username) = toLowerCase(username)})

createUser(st, ins) ==
  LET id == st.userCurrentId
  IN  [st EXCEPT !.userCurrentId = id + 1,
                 !.users = MapSet(st.users, id,
                     [id |-> id, username |-> ins.username,
                      password |-> ins.password,
                      role |-> IF ins.role = "" THEN "user" ELSE ins.role])]

getHospital(st, id) == IF id \in DOMAIN st.hospitals THEN id ELSE 0

\* the lookup with only the stored name lower-cased
getHospitalByUsernameOneSided(st, username) ==
  MapFind({k \in DOMAIN st.hospitals :
             toLowerCase(st.hospitals[k].username) = username})

getHospitalByUsername(st, username) ==
  MapFind({k \in DOMAIN st.hospitals :
             toLowerCase(st.hospitals[k].username) = toLowerCase(username)})

createHospital(st, ins) ==
  LET id == st.hospitalCurrentId
  IN  [st EXCEPT !.hospitalCurrentId = id + 1,
                 !.hospitals = MapSet(st.hospitals, id,
                     [id |-> id, username |-> ins.username,
                      password |-> ins.password, approved |-> FALSE])]

\* a revocation that also rejects the hospital's pending bookings
updateHospitalApprovalCascade(st, id, approved) ==
  IF getHospital(st, id) = 0 THEN st
  ELSE [st EXCEPT !.hospitals[id].approved = approved,
                  !.bookings = [k \in DOMAIN st.bookings |->
                     IF ~approved /\ st.bookings[k].hospitalId = id
                          /\ st.bookings[k].status = "pending"
                     THEN [st.bookings[k] EXCEPT !.status = "rejected"]
                     ELSE st.bookings[k]]]

updateHospitalApproval(st, id, approved) ==
  IF getHospital(st, id) = 0 THEN st
  ELSE [st EXCEPT !.hospitals[id].approved = approved]

\* the filter dropped
getApprovedHospitalsUnfiltered(st) == MapFilter(st.hospitals, DOMAIN st.hospitals)

getApprovedHospitals(st) ==
  MapFilter(st.hospitals, {k \in DOMAIN st.hospitals : st.hospitals[k].approved})

getAllBedTypes(st) == MapFilter(st.bedTypes, DOMAIN st.bedTypes)

createBedType(st, name) ==
  LET id == st.bedTypeCurrentId
  IN  [st EXCEPT !.bedTypeCurrentId = id + 1,
                 !.bedTypes = MapSet(st.bedTypes, id, [id |-> id, name |-> name])]

getBed(st, id) == IF id \in DOMAIN st.beds THEN id ELSE 0

getBedsByHospital(st, hospitalId) ==
  MapFilter(st.beds, {k \in DOMAIN st.beds : st.beds[k].hospitalId = hospitalId})

createBed(st, ins) ==
  LET id == st.bedCurrentId
  IN  [st EXCEPT !.bedCurrentId = id + 1,
                 !.beds = MapSet(st.beds, id,
                     [id |-> id, hospitalId |-> ins.hospitalId,
                      bedTypeId |-> ins.bedTypeId,
                      totalBeds |-> ins.totalBeds,
                      availableBeds |-> ins.availableBeds])]

\* updateBed(id, {totalBeds, availableBeds}): both callers that pass totals
\* pass the two counts together
updateBedCounts(st, id, totalBeds, availableBeds) ==
  IF getBed(st, id) = 0 THEN st
  ELSE [st EXCEPT !.beds[id].totalBeds = totalBeds,
                  !.beds[id].availableBeds = availableBeds]

\* updateBed(id, {availableBeds})
updateBedAvailable(st, id, availableBeds) ==
  IF getBed(st, id) = 0 THEN st
  ELSE [st EXCEPT !.beds[id].availableBeds = availableBeds]

getBedByHospitalAndType(st, hospitalId, bedTypeId) ==
  MapFind({k \in DOMAIN st.beds :
             st.beds[k].hospitalId = hospitalId /\ st.beds[k].bedTypeId = bedTypeId})

getBooking(st, id) == IF id \in DOMAIN st.bookings THEN id ELSE 0

\* the booking recorded, the count left alone
createBookingNoDecrement(st, ins) ==
  LET id == st.bookingCurrentId
  IN  [st EXCEPT !.bookingCurrentId = id + 1,
                 !.bookings = MapSet(st.bookings, id,
                     [id |-> id, userId |-> ins.userId,
                      hospitalId |-> ins.hospitalId,
                      bedTypeId |-> ins.bedTypeId,
                      status |-> IF ins.status = "" THEN "pending"
                                 ELSE ins.status])]

\* the last bed is not taken: the count test is off by one
createBookingKeepLast(st, ins) ==
  LET id  == st.bookingCurrentId
      s1  == [st EXCEPT !.bookingCurrentId = id + 1,
                        !.bookings = MapSet(st.bookings, id,
                            [id |-> id, userId |-> ins.userId,
                             hospitalId |-> ins.hospitalId,
                             bedTypeId |-> ins.bedTypeId,
                             status |-> IF ins.status = "" THEN "pending"
                                        ELSE ins.status])]
      bed == getBedByHospitalAndType(s1, ins.hospitalId, ins.bedTypeId)
  IN  IF bed # 0 /\ s1.beds[bed].availableBeds > 1
      THEN updateBedAvailable(s1, bed, s1.beds[bed].availableBeds - 1)
      ELSE s1

createBooking(st, ins) ==
  LET id  == st.bookingCurrentId
      s1  == [st EXCEPT !.bookingCurrentId = id + 1,
                        !.bookings = MapSet(st.bookings, id,
                            [id |-> id, userId |-> ins.userId,
                             hospitalId |-> ins.hospitalId,
                             bedTypeId |-> ins.bedTypeId,
                             status |-> IF ins.status = "" THEN "pending"
                                        ELSE ins.status])]
      bed == getBedByHospitalAndType(s1, ins.hospitalId, ins.bedTypeId)
  IN  IF bed # 0 /\ s1.beds[bed].availableBeds > 0
      THEN updateBedAvailable(s1, bed, s1.beds[bed].availableBeds - 1)
      ELSE s1

\* supply restored on every cancellation, whatever the prior status
updateBookingStatusAnyCancel(st, id, status) ==
  IF getBooking(st, id) = 0 THEN st
  ELSE LET booking == st.bookings[id]
           bed == getBedByHospitalAndType(st, booking.hospitalId, booking.bedTypeId)
           s1  == IF status = "canceled" /\ bed # 0
                  THEN updateBedAvailable(st, bed, st.beds[bed].availableBeds + 1)
                  ELSE st
       IN  [s1 EXCEPT !.bookings[id].status = status]

\* supply restored when a pending booking is rejected, too
updateBookingStatusRestoreOnReject(st, id, status) ==
  IF getBooking(st, id) = 0 THEN st
  ELSE LET booking == st.bookings[id]
           bed == getBedByHospitalAndType(st, booking.hospitalId, booking.bedTypeId)
           s1  == IF booking.status = "pending" /\ status \in {"canceled", "rejected"}
                     /\ bed # 0
                  THEN updateBedAvailable(st, bed, st.beds[bed].availableBeds + 1)
                  ELSE st
       IN  [s1 EXCEPT !.bookings[id].status = status]

\* a status update of an id the Map does not hold stores a record under it
updateBookingStatusUpsert(st, id, status) ==
  IF getBooking(st, id) = 0
  THEN [st EXCEPT !.bookings = MapSet(st.bookings, id, [id |-> id, status |-> status])]
  ELSE LET booking == st.bookings[id]
           bed == getBedByHospitalAndType(st, booking.hospitalId, booking.bedTypeId)
           s1  == IF booking.status = "pending" /\ status = "canceled" /\ bed # 0
                  THEN updateBedAvailable(st, bed, st.beds[bed].availableBeds + 1)
                  ELSE st
       IN  [s1 EXCEPT !.bookings[id].status = status]

\* a cancellation that takes a bed instead of giving one back
updateBookingStatusCancelTakes(st, id, status) ==
  IF getBooking(st, id) = 0 THEN st
  ELSE LET booking == st.bookings[id]
           bed == getBedByHospitalAndType(st, booking.hospitalId, booking.bedTypeId)
           s1  == IF booking.status = "pending" /\ status = "canceled" /\ bed # 0
                  THEN updateBedAvailable(st, bed, st.beds[bed].availableBeds - 1)
                  ELSE st
       IN  [s1 EXCEPT !.bookings[id].status = status]

updateBookingStatus(st, id, status) ==
  IF getBooking(st, id) = 0 THEN st
  ELSE LET booking == st.bookings[id]
           bed == getBedByHospitalAndType(st, booking.hospitalId, booking.bedTypeId)
           s1  == IF booking.status = "pending" /\ status = "canceled" /\ bed # 0
                  THEN updateBedAvailable(st, bed, st.beds[bed].availableBeds + 1)
                  ELSE st
       IN  [s1 EXCEPT !.bookings[id].status = status]

\* what updateBookingStatus returns: the id of the updated record, 0 for undefined
updateBookingStatusReturn(st, id, status) == getBooking(st, id)

(***************************************************************************)
(* routes.ts: passport and the middlewares                                 *)
(***************************************************************************)
\* a request that carries no session cookie
NoSession == [id |-> 0, isHospital |-> FALSE]

\* passport.serializeUser
serializeUser(id, isHospital) == [id |-> id, isHospital |-> isHospital]

\* passport.deserializeUser: req.user of a request that carries session data
deserializeUser(st, data) ==
  IF data.isHospital
  THEN IF getHospital(st, data.id) = 0
       THEN [authenticated |-> FALSE, id |-> 0, isHospital |-> FALSE, role |-> ""]
       ELSE [authenticated |-> TRUE, id |-> data.id, isHospital |-> TRUE, role |-> ""]
  ELSE IF getUser(st, data.id) = 0
       THEN [authenticated |-> FALSE, id |-> 0, isHospital |-> FALSE, role |-> ""]
       ELSE [authenticated |-> TRUE, id |-> data.id, isHospital |-> FALSE,
             role |-> st.users[data.id].role]

isAuthenticated(st, sess) == deserializeUser(st, sess).authenticated

isAdmin(st, sess) ==
  deserializeUser(st, sess).authenticated /\ deserializeUser(st, sess).role = "admin"

\* req.path.startsWith("/api/hospital") holds of every route isHospital guards
isHospital(st, sess) == deserializeUser(st, sess).authenticated

Res(status, error) == [status |-> status, error |-> error]

Reply(st, res) == [st |-> st, res |-> res]

(***************************************************************************)
(* routes.ts: the handlers, each a function of the store, the session of   *)
(* the request and the request's body or parameters                        *)
(***************************************************************************)
\* the strategy "hospital-local" and the callback of POST /api/auth/hospital/login:
\* the id of the hospital that is logged in, 0 if the attempt is refused
hospitalLocal(st, username, password) ==
  LET h == getHospitalByUsername(st, username)
  IN  IF h = 0 THEN 0
      ELSE IF st.hospitals[h].password # password THEN 0
      ELSE h

\* the callback without its approval test
HospitalLoginStatusNoApproval(st, username, password) ==
  LET h == hospitalLocal(st, username, password)
  IN  IF h = 0 THEN 401 ELSE 200

HospitalLoginStatus(st, username, password) ==
  LET h == hospitalLocal(st, username, password)
  IN  IF h = 0 THEN 401
      ELSE IF ~st.hospitals[h].approved THEN 403
      ELSE 200

\* the strategy "user-local"
userLocal(st, username, password) ==
  LET u == getUserByUsername(st, username)
  IN  IF u = 0 THEN 0
      ELSE IF st.users[u].password # password THEN 0
      ELSE u

\* POST /api/users/register
PostUsersRegister(st, body) ==
  IF getUserByUsername(st, body.username) # 0
  THEN Reply(st, Res(400, "Username already exists"))
  ELSE Reply(createUser(st, body), Res(201, ""))

\* POST /api/hospitals/register
PostHospitalsRegister(st, body) ==
  IF getHospitalByUsername(st, body.username) # 0
  THEN Reply(st, Res(400, "Username already exists"))
  ELSE Reply(createHospital(st, body), Res(201, ""))

\* the handler without its lookup of the hospital's record of the bed type
PostHospitalBedsAlwaysCreate(st, sess, body) ==
  IF ~isAuthenticated(st, sess) THEN Reply(st, Res(401, "Unauthorized"))
  ELSE IF ~isHospital(st, sess) THEN Reply(st, Res(403, "Forbidden"))
  ELSE Reply(createBed(st, [hospitalId |-> deserializeUser(st, sess).id,
                            bedTypeId |-> body.bedTypeId,
                            totalBeds |-> body.totalBeds,
                            availableBeds |-> body.availableBeds]),
             Res(201, ""))

\* POST /api/hospital/beds
PostHospitalBeds(st, sess, body) ==
  IF ~isAuthenticated(st, sess) THEN Reply(st, Res(401, "Unauthorized"))
  ELSE IF ~isHospital(st, sess) THEN Reply(st, Res(403, "Forbidden"))
  ELSE
    LET hospital == deserializeUser(st, sess)
        existingBed == getBedByHospitalAndType(st, hospital.id, body.bedTypeId)
    IN  IF existingBed # 0
        THEN Reply(updateBedCounts(st, existingBed, body.totalBeds, body.availableBeds),
                   Res(200, ""))
        ELSE Reply(createBed(st, [hospitalId |-> hospital.id,
                                  bedTypeId |-> body.bedTypeId,
                                  totalBeds |-> body.totalBeds,
                                  availableBeds |-> body.availableBeds]),
                   Res(201, ""))

\* the handler without its availability test
PostBookingsNoAvailabilityCheck(st, sess, body) ==
  IF ~isAuthenticated(st, sess) THEN Reply(st, Res(401, "Unauthorized"))
  ELSE
    LET user == deserializeUser(st, sess)
        hospital == getHospital(st, body.hospitalId)
        bed == getBedByHospitalAndType(st, body.hospitalId, body.bedTypeId)
    IN  IF hospital = 0 \/ ~st.hospitals[hospital].approved
        THEN Reply(st, Res(404, "Hospital not found"))
        ELSE IF bed = 0
        THEN Reply(st, Res(404, "Bed type not available at this hospital"))
        ELSE Reply(createBooking(st, [userId |-> user.id,
                                      hospitalId |-> body.hospitalId,
                                      bedTypeId |-> body.bedTypeId,
                                      status |-> body.status]),
                   Res(201, ""))

\* POST /api/bookings
PostBookings(st, sess, body) ==
  IF ~isAuthenticated(st, sess) THEN Reply(st, Res(401, "Unauthorized"))
  ELSE
    LET user == deserializeUser(st, sess)
        hospital == getHospital(st, body.hospitalId)
        bed == getBedByHospitalAndType(st, body.hospitalId, body.bedTypeId)
    IN  IF hospital = 0 \/ ~st.hospitals[hospital].approved
        THEN Reply(st, Res(404, "Hospital not found"))
        ELSE IF bed = 0
        THEN Reply(st, Res(404, "Bed type not available at this hospital"))
        ELSE IF st.beds[bed].availableBeds <= 0
        THEN Reply(st, Res(400, "No beds available of this type"))
        ELSE Reply(createBooking(st, [userId |-> user.id,
                                      hospitalId |-> body.hospitalId,
                                      bedTypeId |-> body.bedTypeId,
                                      status |-> body.status]),
                   Res(201, ""))

\* the handler without its pending test
PatchUserBookingsCancelAnyStatus(st, sess, bookingId) ==
  IF ~isAuthenticated(st, sess) THEN Reply(st, Res(401, "Unauthorized"))
  ELSE
    LET user == deserializeUser(st, sess)
        booking == getBooking(st, bookingId)
    IN  IF booking = 0
        THEN Reply(st, Res(404, "Booking not found"))
        ELSE IF st.bookings[booking].userId # user.id
        THEN Reply(st, Res(403, "Forbidden"))
        ELSE Reply(updateBookingStatus(st, bookingId, "canceled"),
                   Res(200, ""))

\* PATCH /api/user/bookings/:id/cancel
PatchUserBookingsCancel(st, sess, bookingId) ==
  IF ~isAuthenticated(st, sess) THEN Reply(st, Res(401, "Unauthorized"))
  ELSE
    LET user == deserializeUser(st, sess)
        booking == getBooking(st, bookingId)
    IN  IF booking = 0
        THEN Reply(st, Res(404, "Booking not found"))
        ELSE IF st.bookings[booking].userId # user.id
        THEN Reply(st, Res(403, "Forbidden"))
        ELSE IF st.bookings[booking].status # "pending"
        THEN Reply(st, Res(400, "Can only cancel pending bookings"))
        ELSE Reply(updateBookingStatus(st, bookingId, "canceled"),
                   Res(200, ""))

\* a hospital's cancellation that gives the bed back whatever the status was
PatchHospitalBookingsReleaseOnCancel(st, sess, bookingId, status) ==
  IF ~isAuthenticated(st, sess) THEN Reply(st, Res(401, "Unauthorized"))
  ELSE IF ~isHospital(st, sess) THEN Reply(st, Res(403, "Forbidden"))
  ELSE
    LET hospital == deserializeUser(st, sess)
        booking == getBooking(st, bookingId)
    IN  IF status \notin {"approved", "rejected", "canceled"}
        THEN Reply(st, Res(400, "Invalid status"))
        ELSE IF booking = 0
        THEN Reply(st, Res(404, "Booking not found"))
        ELSE IF st.bookings[booking].hospitalId # hospital.id
        THEN Reply(st, Res(403, "Forbidden"))
        ELSE IF status = "canceled" /\ st.bookings[booking].status # "canceled"
        THEN Reply(updateBookingStatus(updateBookingStatus(st, bookingId, "pending"),
                                       bookingId, "canceled"),
                   Res(200, ""))
        ELSE Reply(updateBookingStatus(st, bookingId, status),
                   Res(200, ""))

\* PATCH /api/hospital/bookings/:id
PatchHospitalBookings(st, sess, bookingId, status) ==
  IF ~isAuthenticated(st, sess) THEN Reply(st, Res(401, "Unauthorized"))
  ELSE IF ~isHospital(st, sess) THEN Reply(st, Res(403, "Forbidden"))
  ELSE
    LET hospital == deserializeUser(st, sess)
        booking == getBooking(st, bookingId)
    IN  IF status \notin {"approved", "rejected", "canceled"}
        THEN Reply(st, Res(400, "Invalid status"))
        ELSE IF booking = 0
        THEN Reply(st, Res(404, "Booking not found"))
        ELSE IF st.bookings[booking].hospitalId # hospital.id
        THEN Reply(st, Res(403, "Forbidden"))
        ELSE Reply(updateBookingStatus(st, bookingId, status),
                   Res(200, ""))

\* PATCH /api/admin/hospitals/:id/approve and .../reject
PatchAdminHospitals(st, sess, hospitalId, approved) ==
  IF ~isAuthenticated(st, sess) THEN Reply(st, Res(401, "Unauthorized"))
  ELSE IF ~isAdmin(st, sess) THEN Reply(st, Res(403, "Forbidden"))
  ELSE IF getHospital(st, hospitalId) = 0
  THEN Reply(st, Res(404, "Hospital not found"))
  ELSE Reply(updateHospitalApproval(st, hospitalId, approved),
             Res(200, ""))

(***************************************************************************)
(* services/hospitalApi.ts                                                 *)
(***************************************************************************)
\* how GET /health can go: status 200, another status axios lets through, or
\* an exception (no answer, or a status axios rejects)
ProbeOutcomes == {"200", "204", "throws"}

\* a health probe that counts every answer as success
isApiAvailableAnyAnswer(key, probe) ==
  IF key = "" THEN FALSE
  ELSE probe # "throws"

\* isApiAvailable, probe the outcome of GET /health (not looked at without a key)
isApiAvailable(key, probe) ==
  IF key = "" THEN FALSE
  ELSE probe = "200"

\* apiHospital.address.street of a payload entry without an address: TypeError
transformThrows(apiHospital) == apiHospital.address = "undefined"

transformHospitalData(apiHospital) ==
  [username |-> "hospital_" \o apiHospital.id, password |-> "temporary_password"]

\* the map keyed by the names as stored
bedTypeMapOfExactNames(st) ==
  [n \in {st.bedTypes[k].name : k \in DOMAIN st.bedTypes} |->
     CHOOSE k \in DOMAIN st.bedTypes :
       /\ st.bedTypes[k].name = n
       /\ \A j \in DOMAIN st.bedTypes : st.bedTypes[j].name = n => j <= k]

\* the bedTypeMap of processHospitalBeds: lower-cased name -> id, a later
\* bed type of the same lower-cased name replacing an earlier one; 0 = no entry
bedTypeMapOf(st) ==
  [n \in {toLowerCase(st.bedTypes[k].name) : k \in DOMAIN st.bedTypes} |->
     CHOOSE k \in DOMAIN st.bedTypes :
       /\ toLowerCase(st.bedTypes[k].name) = n
       /\ \A j \in DOMAIN st.bedTypes :
            toLowerCase(st.bedTypes[j].name) = n => j <= k]

bedTypeMapGet(m, n) == IF n \in DOMAIN m THEN m[n] ELSE 0

\* an existing bed record keeps its counts
processApiBedCreateOnly(st, bedTypeMap, hospitalId, apiBed) ==
  LET known == bedTypeMapGet(bedTypeMap, toLowerCase(apiBed.type))
      s1 == IF known = 0 THEN createBedType(st, apiBed.type) ELSE st
      bedTypeId == IF known = 0 THEN st.bedTypeCurrentId ELSE known
      m1 == IF known = 0
            THEN [n \in (DOMAIN bedTypeMap) \cup {toLowerCase(apiBed.type)} |->
                    IF n = toLowerCase(apiBed.type) THEN bedTypeId ELSE bedTypeMap[n]]
            ELSE bedTypeMap
      existingBed == getBedByHospitalAndType(s1, hospitalId, bedTypeId)
      s2 == IF existingBed # 0 THEN s1
            ELSE createBed(s1, [hospitalId |-> hospitalId, bedTypeId |-> bedTypeId,
                                totalBeds |-> apiBed.total,
                                availableBeds |-> apiBed.available])
  IN  [st |-> s2, bedTypeMap |-> m1]

\* one pass of the loop `for (const apiBed of apiBeds)`
processApiBed(st, bedTypeMap, hospitalId, apiBed) ==
  LET known == bedTypeMapGet(bedTypeMap, toLowerCase(apiBed.type))
      s1 == IF known = 0 THEN createBedType(st, apiBed.type) ELSE st
      bedTypeId == IF known = 0 THEN st.bedTypeCurrentId ELSE known
      m1 == IF known = 0
            THEN [n \in (DOMAIN bedTypeMap) \cup {toLowerCase(apiBed.type)} |->
                    IF n = toLowerCase(apiBed.type) THEN bedTypeId ELSE bedTypeMap[n]]
            ELSE bedTypeMap
      existingBed == getBedByHospitalAndType(s1, hospitalId, bedTypeId)
      s2 == IF existingBed # 0
            THEN updateBedCounts(s1, existingBed, apiBed.total, apiBed.available)
            ELSE createBed(s1, [hospitalId |-> hospitalId, bedTypeId |-> bedTypeId,
                                totalBeds |-> apiBed.total,
                                availableBeds |-> apiBed.available])
  IN  [st |-> s2, bedTypeMap |-> m1]

RECURSIVE processApiBeds(_, _, _, _)
processApiBeds(st, bedTypeMap, hospitalId, apiBeds) ==
  IF apiBeds = <<>> THEN st
  ELSE LET r == processApiBed(st, bedTypeMap, hospitalId, Head(apiBeds))
       IN  processApiBeds(r.st, r.bedTypeMap, hospitalId, Tail(apiBeds))

\* processHospitalBeds
processHospitalBeds(st, hospitalId, apiBeds) ==
  processApiBeds(st, bedTypeMapOf(st), hospitalId, apiBeds)

\* a pass that brings a hospital it finds up to date: approved again, its beds
\* ingested again
processApiHospitalRefresh(acc, apiHospital) ==
  LET found == getHospitalByUsername(acc.st, "hospital_" \o apiHospital.id)
  IN  IF acc.threw THEN acc
      ELSE IF found # 0
      THEN LET s2 == updateHospitalApproval(acc.st, found, TRUE)
               s3 == processHospitalBeds(s2, found, apiHospital.beds)
           IN  [acc EXCEPT !.st = s3,
                           !.hospitals = Append(acc.hospitals, s2.hospitals[found])]
      ELSE IF transformThrows(apiHospital)
      THEN [acc EXCEPT !.threw = TRUE]
      ELSE LET id == acc.st.hospitalCurrentId
               s1 == createHospital(acc.st, transformHospitalData(apiHospital))
               s2 == updateHospitalApproval(s1, id, TRUE)
               s3 == processHospitalBeds(s2, id, apiHospital.beds)
           IN  [st |-> s3, hospitals |-> Append(acc.hospitals, s2.hospitals[id]),
                threw |-> FALSE]

\* one pass of the loop `for (const apiHospital of response.data)` of
\* getHospitalsByLocation; acc = [st, hospitals, threw], threw = an exception
\* has ended the loop
processApiHospital(acc, apiHospital) ==
  LET found == getHospitalByUsername(acc.st, "hospital_" \o apiHospital.id)
  IN  IF acc.threw THEN acc
      ELSE IF found # 0
      THEN [acc EXCEPT !.hospitals = Append(acc.hospitals, acc.st.hospitals[found])]
      ELSE IF transformThrows(apiHospital)
      THEN [acc EXCEPT !.threw = TRUE]
      ELSE LET id == acc.st.hospitalCurrentId
               s1 == createHospital(acc.st, transformHospitalData(apiHospital))
               s2 == updateHospitalApproval(s1, id, TRUE)
               s3 == processHospitalBeds(s2, id, apiHospital.beds)
           IN  [st |-> s3, hospitals |-> Append(acc.hospitals, s2.hospitals[id]),
                threw |-> FALSE]

RECURSIVE processApiHospitals(_, _)
processApiHospitals(acc, data) ==
  IF data = <<>> THEN acc
  ELSE processApiHospitals(processApiHospital(acc, Head(data)), Tail(data))

\* the try block of getHospitalsByLocation from the arrival of the /hospitals
\* response on: [st, hospitals, threw]
hospitalsLoop(st, data) ==
  processApiHospitals([st |-> st, hospitals |-> <<>>, threw |-> FALSE], data)

\* getHospitalsByLocation when isApiAvailable is false, and its catch block
hospitalsFromLocal(st) == [st |-> st, hospitals |-> getApprovedHospitals(st)]

\* a catch block that answers with the hospitals gathered before the exception
hospitalsFromApiPartial(st, data) ==
  LET r == hospitalsLoop(st, data)
  IN  [st |-> r.st, hospitals |-> r.hospitals]

\* getHospitalsByLocation from the arrival of the /hospitals response on:
\* the store after the call and the list it returns
hospitalsFromApi(st, data) ==
  LET r == hospitalsLoop(st, data)
  IN  IF r.threw THEN hospitalsFromLocal(r.st)
      ELSE [st |-> r.st, hospitals |-> r.hospitals]

\* getHospitalsByLocation from the return of GET /hospitals on, which threw or
\* brought data
hospitalsAfterFetch(st, threw, data) ==
  IF threw THEN hospitalsFromLocal(st) ELSE hospitalsFromApi(st, data)

\* the bedTypeName the route adds to each bed record
bedTypeNameOf(st, bedTypeId) ==
  IF bedTypeId \in DOMAIN st.bedTypes THEN st.bedTypes[bedTypeId].name ELSE "Unknown"

\* the body of GET /api/hospitals/:hospitalId/beds for the list getHospitalBeds returns
enhancedBeds(st, beds) ==
  [i \in DOMAIN beds |->
     [bed |-> beds[i], bedTypeName |-> bedTypeNameOf(st, beds[i].bedTypeId)]]

\* getHospitalBeds when isApiAvailable is false, and its catch block
hospitalBedsFromLocal(st, hospitalId) ==
  [st |-> st, beds |-> getBedsByHospital(st, hospitalId)]

\* the remote detail is fetched and then left unused
hospitalBedsFromApiKeepLocal(st, hospitalId, data) ==
  hospitalBedsFromLocal(st, hospitalId)

\* getHospitalBeds from the arrival of the /hospitals/<id> response on; data is
\* the response body
hospitalBedsFromApi(st, hospitalId, data) ==
  LET s1 == IF ~data.present THEN st
            ELSE processHospitalBeds(st, hospitalId, data.beds)
  IN  [st |-> s1, beds |-> getBedsByHospital(s1, hospitalId)]

\* getHospitalBeds from the return of GET /hospitals/<id> on, which threw or
\* brought data
hospitalBedsAfterFetch(st, hospitalId, threw, data) ==
  IF threw THEN hospitalBedsFromLocal(st, hospitalId)
  ELSE hospitalBedsFromApi(st, hospitalId, data)

(***************************************************************************)
(* Requests: the inputs the clients and the external source supply         *)
(***************************************************************************)
UserRegistrations == {[username |-> "pat", password |-> "pw", role |-> ""]}

UserCredentials ==
  {[username |-> "admin", password |-> "admin123"],
   [username |-> "pat", password |-> "pw"],
   [username |-> "pat", password |-> "wrong"]}

HospitalRegistrations ==
  {[username |-> "city", password |-> "pw"],
   [username |-> "hospital_a", password |-> "pw"]}

\* the one hospital of the booking runs
CityRegistration == {[username |-> "city", password |-> "pw"]}

HospitalCredentials ==
  {[username |-> "city", password |-> "pw"],
   [username |-> "city", password |-> "wrong"],
   [username |-> "hospital_A", password |-> "pw"],
   [username |-> "hospital_a", password |-> "temporary_password"]}

BedTypeIds == {1, 2}

\* bodies of POST /api/hospital/beds: insertBedSchema takes any two integers
BedBodies ==
  [bedTypeId : BedTypeIds, totalBeds : 0..MaxTotal, availableBeds : 0..MaxTotal]

\* bodies the client form lets through (HospitalBedManagement.onSubmit): a
\* hospital declares MaxTotal beds of a type, any number of them available
FormBedBodies ==
  {b \in BedBodies : b.totalBeds = MaxTotal /\ b.availableBeds <= b.totalBeds}

\* bodies of POST /api/bookings; insertBookingSchema lets the body name a status
BookingBodies(st) ==
  [hospitalId : 1..st.hospitalCurrentId, bedTypeId : BedTypeIds,
   status : {"", "approved"}]

BookingIds(st) == 1..st.bookingCurrentId

StatusInputs == {"approved", "rejected", "canceled", "pending"}

\* payloads of the external source
ApiBedLists ==
  {<<>>,
   <<[type |-> "icu", total |-> MaxTotal, available |-> 1]>>,
   <<[type |-> "Burn", total |-> 1, available |-> 1],
     [type |-> "General", total |-> MaxTotal, available |-> MaxTotal]>>}

ApiHospitals == [id : {"a", "A"}, beds : ApiBedLists, address : {"object"}]

\* an entry of the payload that lacks its address
MalformedApiHospital == [id |-> "b", beds |-> <<>>, address |-> "undefined"]

ApiResponses ==
  {<<>>} \cup {<<h>> : h \in ApiHospitals}
         \cup {<<h, g>> : h \in {x \in ApiHospitals : x.id = "a"},
                          g \in {x \in ApiHospitals : x.beds = <<>>}}
         \cup {<<h, g>> : h \in {x \in ApiHospitals : x.id = "a" /\ Len(x.beds) = 1},
                          g \in {x \in ApiHospitals : x.id = "A" /\ Len(x.beds) = 2}}
         \cup {<<MalformedApiHospital>>}
         \cup {<<h, MalformedApiHospital>> : h \in {x \in ApiHospitals : x.id = "a"}}

\* bodies of GET /hospitals/<id>: none, or a hospital with its bed entries
NoData == [present |-> FALSE, beds |-> <<>>]

\* payloads that name one bed type twice, in two spellings
DoubledBedLists ==
  {<<[type |-> "ICU", total |-> MaxTotal, available |-> 1],
     [type |-> "icu", total |-> MaxTotal, available |-> MaxTotal]>>,
   <<[type |-> "Burn", total |-> 1, available |-> 1],
     [type |-> "burn", total |-> MaxTotal, available |-> 0]>>}

ApiDetails ==
  {NoData} \cup {[present |-> TRUE, beds |-> l] : l \in ApiBedLists \cup DoubledBedLists}


(***************************************************************************)
(* Actions: one per request handled, and one per resumption of a call      *)
(* suspended on the external source                                        *)
(***************************************************************************)
Handle(r) ==
  /\ storage' = r.st
  /\ UNCHANGED <<sessions, apiKey, calls, listing, bedListing, requests, running>>

UserRegister ==
  \E body \in UserRegistrations : Handle(PostUsersRegister(storage, body))

UserLogin ==
  \E c \in UserCredentials :
    LET u == userLocal(storage, c.username, c.password)
    IN  /\ sessions' = IF u = 0 THEN sessions
                       ELSE sessions \cup {serializeUser(u, FALSE)}
        /\ UNCHANGED <<storage, apiKey, calls, listing, bedListing, requests, running>>

HospitalRegister ==
  \E body \in HospitalRegistrations : Handle(PostHospitalsRegister(storage, body))

CityRegister ==
  \E body \in CityRegistration : Handle(PostHospitalsRegister(storage, body))

HospitalLogin ==
  \E c \in HospitalCredentials :
    LET code == HospitalLoginStatus(storage, c.username, c.password)
        h == hospitalLocal(storage, c.username, c.password)
    IN  /\ sessions' = IF code = 200 THEN sessions \cup {serializeUser(h, TRUE)}
                       ELSE sessions
        /\ UNCHANGED <<storage, apiKey, calls, listing, bedListing, requests, running>>

Logout ==
  \E s \in sessions :
    /\ sessions' = sessions \ {s}
    /\ UNCHANGED <<storage, apiKey, calls, listing, bedListing, requests, running>>

AdminApproval ==
  \E s \in sessions, h \in 1..storage.hospitalCurrentId, approved \in BOOLEAN :
    Handle(PatchAdminHospitals(storage, s, h, approved))

BedsUpsert ==
  \E s \in sessions, body \in BedBodies :
    LET r == PostHospitalBeds(storage, s, body)
    IN  /\ r.res.status = 201 => storage.bedCurrentId <= MaxBeds
        /\ Handle(r)

\* POST /api/hospital/beds for a bed type the hospital has no record of yet,
\* with counts the form accepts
BedsCreate ==
  \E s \in sessions, body \in FormBedBodies :
    /\ getBedByHospitalAndType(storage, deserializeUser(storage, s).id,
                               body.bedTypeId) = 0
    /\ storage.bedCurrentId <= MaxBeds
    /\ Handle(PostHospitalBeds(storage, s, body))

BookAs(clients, bodies, cap) ==
  \E s \in clients, body \in bodies :
    LET r == PostBookings(storage, s, body)
    IN  /\ r.res.status = 201 => storage.bookingCurrentId <= cap
        /\ Handle(r)

BookWith(bodies, cap) == BookAs(sessions, bodies, cap)

Book == BookWith(BookingBodies(storage), MaxBookings)

UserCancelAs(clients) ==
  \E s \in clients, b \in BookingIds(storage) :
    Handle(PatchUserBookingsCancel(storage, s, b))

UserCancel == UserCancelAs(sessions)

HospitalStatusAs(clients) ==
  \E s \in clients, b \in BookingIds(storage), status \in StatusInputs :
    Handle(PatchHospitalBookings(storage, s, b, status))

HospitalStatus == HospitalStatusAs(sessions)

\* the scenario: hospital H offers ScenarioBeds ICU beds, all available
ScenarioBedBody ==
  [bedTypeId |-> 1, totalBeds |-> ScenarioBeds, availableBeds |-> ScenarioBeds]

ScenarioBookingBody == [hospitalId |-> 1, bedTypeId |-> 1, status |-> ""]

ScenarioBedCreate ==
  \E s \in sessions :
    /\ getBedByHospitalAndType(storage, deserializeUser(storage, s).id, 1) = 0
    /\ storage.bedCurrentId <= MaxBeds
    /\ Handle(PostHospitalBeds(storage, s, ScenarioBedBody))

ScenarioBook == BookWith({ScenarioBookingBody}, ScenarioBeds)

\* POST /api/config/api-key: updateApiConfig, then a probe whose result only
\* goes into the response
ConfigApiKey ==
  \E s \in sessions, key \in {"", "key"} :
    /\ isAdmin(storage, s)
    /\ apiKey' = IF key = "" THEN apiKey ELSE key
    /\ UNCHANGED <<storage, sessions, calls, listing, bedListing, requests, running>>

Idle == [pc |-> "idle"]

\* GET /api/hospitals up to the first suspension: isApiAvailable answers at
\* once when no key is set, and awaits GET /health otherwise
GetHospitals ==
  \E c \in DOMAIN calls :
    /\ calls[c] = Idle
    /\ IF apiKey = ""
       THEN /\ listing' = hospitalsFromLocal(storage).hospitals
            /\ storage' = hospitalsFromLocal(storage).st
            /\ UNCHANGED calls
       ELSE /\ calls' = [calls EXCEPT ![c] = [pc |-> "probe"]]
            /\ UNCHANGED <<storage, listing>>
    /\ UNCHANGED <<sessions, apiKey, bedListing, requests, running>>

\* GET /health returns
ProbeReturns ==
  \E c \in DOMAIN calls, probe \in ProbeOutcomes :
    /\ calls[c] = [pc |-> "probe"]
    /\ IF isApiAvailable(apiKey, probe)
       THEN /\ calls' = [calls EXCEPT ![c] = [pc |-> "fetch"]]
            /\ UNCHANGED <<storage, listing>>
       ELSE /\ calls' = [calls EXCEPT ![c] = Idle]
            /\ listing' = hospitalsFromLocal(storage).hospitals
            /\ storage' = hospitalsFromLocal(storage).st
    /\ UNCHANGED <<sessions, apiKey, bedListing, requests, running>>

\* GET /hospitals returns a payload or throws; what follows in
\* getHospitalsByLocation awaits the store only and runs to the response
FetchReturns ==
  \E c \in DOMAIN calls, threw \in BOOLEAN, data \in ApiResponses :
    LET r == hospitalsAfterFetch(storage, threw, data)
    IN  /\ calls[c] = [pc |-> "fetch"]
        /\ threw => data = <<>>
        /\ r.st.hospitalCurrentId <= MaxHospitals + 1
        /\ calls' = [calls EXCEPT ![c] = Idle]
        /\ storage' = r.st
        /\ listing' = r.hospitals
        /\ UNCHANGED <<sessions, apiKey, bedListing, requests, running>>

\* GET /api/hospitals/:hospitalId/beds up to the first suspension: 404 for a
\* hospital that is unknown or not approved; without a key getHospitalBeds
\* answers from the store at once, with one it awaits GET /health
GetHospitalBeds ==
  \E c \in DOMAIN calls, h \in 1..storage.hospitalCurrentId :
    /\ calls[c] = Idle
    /\ IF getHospital(storage, h) = 0 \/ ~storage.hospitals[h].approved
       THEN UNCHANGED <<storage, calls, bedListing>>
       ELSE IF apiKey = ""
       THEN /\ storage' = hospitalBedsFromLocal(storage, h).st
            /\ bedListing' = enhancedBeds(storage, hospitalBedsFromLocal(storage, h).beds)
            /\ UNCHANGED calls
       ELSE /\ calls' = [calls EXCEPT ![c] = [pc |-> "bedsProbe", hospitalId |-> h]]
            /\ UNCHANGED <<storage, bedListing>>
    /\ UNCHANGED <<sessions, apiKey, listing, requests, running>>

\* GET /health returns to getHospitalBeds, which then looks the hospital up
\* and awaits GET /hospitals/<id>
BedsProbeReturns ==
  \E c \in DOMAIN calls, probe \in ProbeOutcomes :
    /\ calls[c].pc = "bedsProbe"
    /\ IF ~isApiAvailable(apiKey, probe)
       THEN /\ calls' = [calls EXCEPT ![c] = Idle]
            /\ storage' = hospitalBedsFromLocal(storage, calls[c].hospitalId).st
            /\ bedListing' = enhancedBeds(storage,
                 hospitalBedsFromLocal(storage, calls[c].hospitalId).beds)
       ELSE IF getHospital(storage, calls[c].hospitalId) = 0
       THEN /\ calls' = [calls EXCEPT ![c] = Idle]
            /\ bedListing' = <<>>
            /\ UNCHANGED storage
       ELSE /\ calls' = [calls EXCEPT ![c] = [pc |-> "bedsFetch",
                                              hospitalId |-> calls[c].hospitalId]]
            /\ UNCHANGED <<storage, bedListing>>
    /\ UNCHANGED <<sessions, apiKey, listing, requests, running>>

\* GET /hospitals/<id> returns a body or throws; what follows in getHospitalBeds
\* and in the route awaits the store only and runs to the response
BedsFetchWith(details) ==
  \E c \in DOMAIN calls, threw \in BOOLEAN, data \in details :
    LET r == hospitalBedsAfterFetch(storage, calls[c].hospitalId, threw, data)
    IN  /\ calls[c].pc = "bedsFetch"
        /\ threw => data = NoData
        /\ calls' = [calls EXCEPT ![c] = Idle]
        /\ storage' = r.st
        /\ bedListing' = enhancedBeds(r.st, r.beds)
        /\ UNCHANGED <<sessions, apiKey, listing, requests, running>>

BedsFetchReturns == BedsFetchWith(ApiDetails)

\* the remote source's view of one hospital's ICU beds
IcuDetails ==
  {NoData} \cup
  {[present |-> TRUE,
    beds |-> <<[type |-> "ICU", total |-> MaxTotal, available |-> a]>>] :
     a \in {1, MaxTotal}}

BedsFetchIcu == BedsFetchWith(IcuDetails)

\* POST /api/hospital/beds with counts the form accepts, for a bed type the
\* hospital has a record of or not
BedsUpsertAs(clients, bodies) ==
  \E s \in clients, body \in bodies :
    LET r == PostHospitalBeds(storage, s, body)
    IN  /\ r.res.status = 201 => storage.bedCurrentId <= MaxBeds
        /\ Handle(r)

\* the sessions opened by the hospital login, and those opened by the user login
HospitalSessions == {s \in sessions : s.isHospital}

UserSessions == {s \in sessions : ~s.isHospital}

\* a hospital's ICU beds, declared and then corrected by the hospital through
\* the form
BedsUpsertIcu == BedsUpsertAs(HospitalSessions, {b \in FormBedBodies : b.bedTypeId = 1})

\* bookings of ICU beds with a body that names no status
IcuBookingBodies(st) ==
  {b \in BookingBodies(st) : b.bedTypeId = 1 /\ b.status = ""}

\* users book ICU beds and cancel; the hospital decides on the bookings
BookIcu == BookAs(UserSessions, IcuBookingBodies(storage), MaxBookings)

UserCancelOwn == UserCancelAs(UserSessions)

HospitalDecides == HospitalStatusAs(HospitalSessions)

\* calls on the store made directly, as its interface IStorage allows
CreateBedCall ==
  \E h \in 1..2, body \in BedBodies :
    /\ storage.bedCurrentId <= MaxBeds
    /\ storage' = createBed(storage, [hospitalId |-> h, bedTypeId |-> body.bedTypeId,
                                      totalBeds |-> body.totalBeds,
                                      availableBeds |-> body.availableBeds])
    /\ UNCHANGED <<sessions, apiKey, calls, listing, bedListing, requests, running>>

(***************************************************************************)
(* POST /api/bookings followed await by await.  An async function runs    *)
(* synchronously up to its first await, so a store method reads the Map   *)
(* when it is called and the caller sees the value when it is resumed.     *)
(***************************************************************************)
\* the awaits of the handler, of createBooking and of updateBed, named after
\* the store method awaited
StoreAwaits == {"getHospital", "getBedByHospitalAndType", "createBooking", "updateBed"}

\* every await of a request to the event loop: another request's callback may
\* run before the continuation
ReleasesEventLoopAtEveryAwait(pc) == TRUE

\* whether the event loop may run another request's callback while a request
\* is at pc: the store methods do no I/O, the promise awaited is already
\* resolved and the continuation is a microtask of the same turn
ReleasesEventLoop(pc) == pc \notin StoreAwaits

NoRequest ==
  [pc |-> "idle", userId |-> 0, body |-> ScenarioBookingBody, hospital |-> FALSE,
   bed |-> 0, availableBeds |-> 0, totalBeds |-> 0, status |-> 0]

\* bodies of the requests followed await by await: ICU beds of the one hospital
RequestBodies == {ScenarioBookingBody}

\* createBooking up to its await: the id taken and the record set
createBookingRecord(st, ins) ==
  LET id == st.bookingCurrentId
  IN  [st EXCEPT !.bookingCurrentId = id + 1,
                 !.bookings = MapSet(st.bookings, id,
                     [id |-> id, userId |-> ins.userId,
                      hospitalId |-> ins.hospitalId,
                      bedTypeId |-> ins.bedTypeId,
                      status |-> IF ins.status = "" THEN "pending"
                                 ELSE ins.status])]

\* updateBed after its await of getBed: {...bed, ...bedData} set in the Map
updateBedSet(st, id, totalBeds, availableBeds) ==
  [st EXCEPT !.beds[id].totalBeds = totalBeds,
             !.beds[id].availableBeds = availableBeds]

Responds(req, status) == [req EXCEPT !.pc = "done", !.status = status]

\* the request record and the store after the continuation of the await at
\* req.pc has run up to the next await or to the response
bookingContinuation(st, req) ==
  LET hospitalId == req.body.hospitalId
      bedTypeId == req.body.bedTypeId
      found == getBedByHospitalAndType(st, hospitalId, bedTypeId)
  IN  CASE req.pc = "getHospital" ->
             IF ~req.hospital THEN [st |-> st, req |-> Responds(req, 404)]
             ELSE [st |-> st,
                   req |-> [req EXCEPT !.pc = "getBedByHospitalAndType",
                              !.bed = found,
                              !.availableBeds =
                                 IF found = 0 THEN 0 ELSE st.beds[found].availableBeds]]
        [] req.pc = "getBedByHospitalAndType" ->
             IF req.bed = 0 THEN [st |-> st, req |-> Responds(req, 404)]
             ELSE IF req.availableBeds <= 0 THEN [st |-> st, req |-> Responds(req, 400)]
             ELSE LET s1 == createBookingRecord(st, [userId |-> req.userId,
                                                     hospitalId |-> hospitalId,
                                                     bedTypeId |-> bedTypeId,
                                                     status |-> req.body.status])
                      bed == getBedByHospitalAndType(s1, hospitalId, bedTypeId)
                  IN  [st |-> s1,
                       req |-> [req EXCEPT !.pc = "createBooking",
                                  !.bed = bed,
                                  !.availableBeds =
                                     IF bed = 0 THEN 0 ELSE s1.beds[bed].availableBeds]]
        [] req.pc = "createBooking" ->
             IF req.bed # 0 /\ req.availableBeds > 0
             THEN [st |-> st,
                   req |-> [req EXCEPT !.pc = "updateBed",
                              !.bed = getBed(st, req.bed),
                              !.totalBeds =
                                 IF getBed(st, req.bed) = 0 THEN 0
                                 ELSE st.beds[req.bed].totalBeds]]
             ELSE [st |-> st, req |-> Responds(req, 201)]
        [] req.pc = "updateBed" ->
             IF req.bed = 0 THEN [st |-> st, req |-> Responds(req, 201)]
             ELSE [st |-> updateBedSet(st, req.bed, req.totalBeds, req.availableBeds - 1),
                   req |-> Responds(req, 201)]

\* the request that holds the event loop after request r has reached pc
holder(r, pc) == IF pc = "done" \/ ReleasesEventLoop(pc) THEN 0 ELSE r

\* a request arrives: passport deserializes the session, isAuthenticated and
\* the handler run up to the await of getHospital
BookingArrives ==
  \E r \in 1..MaxRequests, s \in sessions, body \in RequestBodies :
    LET user == deserializeUser(storage, s)
        hospital == getHospital(storage, body.hospitalId)
        req == IF ~user.authenticated THEN Responds(NoRequest, 401)
               ELSE [NoRequest EXCEPT !.pc = "getHospital", !.userId = user.id,
                       !.body = body,
                       !.hospital = (hospital # 0 /\ storage.hospitals[hospital].approved)]
    IN  /\ running = 0
        /\ requests[r].pc = "idle"
        /\ requests' = [requests EXCEPT ![r] = req]
        /\ running' = holder(r, req.pc)
        /\ UNCHANGED <<storage, sessions, apiKey, calls, listing, bedListing>>

\* the continuation of a request's await runs
BookingResumes ==
  \E r \in 1..MaxRequests :
    LET c == bookingContinuation(storage, requests[r])
    IN  /\ requests[r].pc \in StoreAwaits
        /\ running \in {0, r}
        /\ storage' = c.st
        /\ requests' = [requests EXCEPT ![r] = c.req]
        /\ running' = holder(r, c.req.pc)
        /\ UNCHANGED <<sessions, apiKey, calls, listing, bedListing>>

\* beds declared with all of them available
FullBedBodies == {b \in BedBodies : b.availableBeds = b.totalBeds}

\* the handlers below run in a turn of their own, between two requests
BetweenRequests(A) == running = 0 /\ A

BedsCreateFull ==
  \E s \in HospitalSessions, body \in FullBedBodies :
    /\ getBedByHospitalAndType(storage, deserializeUser(storage, s).id,
                               body.bedTypeId) = 0
    /\ storage.bedCurrentId <= MaxBeds
    /\ Handle(PostHospitalBeds(storage, s, body))

Init ==
  /\ storage = MemStorage
  /\ sessions = {}
  /\ apiKey = ""
  /\ calls = [c \in 1..MaxCalls |-> Idle]
  /\ listing = <<>>
  /\ bedListing = <<>>
  /\ requests = [r \in 1..MaxRequests |-> NoRequest]
  /\ running = 0

Next ==
  \/ UserRegister
  \/ UserLogin
  \/ HospitalRegister
  \/ HospitalLogin
  \/ Logout
  \/ AdminApproval
  \/ ConfigApiKey
  \/ BedsUpsert
  \/ Book
  \/ UserCancel
  \/ HospitalStatus
  \/ GetHospitals
  \/ ProbeReturns
  \/ FetchReturns
  \/ GetHospitalBeds
  \/ BedsProbeReturns
  \/ BedsFetchReturns

Spec == Init /\ [][Next]_vars

\* one hospital, its bed inventory and the bookings against it; no bed record
\* is overwritten
NextBooking ==
  \/ UserLogin
  \/ CityRegister
  \/ HospitalLogin
  \/ AdminApproval
  \/ BedsCreate
  \/ Book
  \/ UserCancel
  \/ HospitalStatus

SpecBooking == Init /\ [][NextBooking]_vars

\* registration, approval, login and the directory sync
NextDirectory ==
  \/ UserLogin
  \/ HospitalRegister
  \/ HospitalLogin
  \/ Logout
  \/ AdminApproval
  \/ ConfigApiKey
  \/ GetHospitals
  \/ ProbeReturns
  \/ FetchReturns

SpecDirectory == Init /\ [][NextDirectory]_vars

\* the scenario of the booking state machine
NextScenario ==
  \/ UserLogin
  \/ CityRegister
  \/ HospitalLogin
  \/ AdminApproval
  \/ ScenarioBedCreate
  \/ ScenarioBook
  \/ UserCancel

SpecScenario == Init /\ [][NextScenario]_vars

\* the bed store called directly
NextStorage == CreateBedCall

SpecStorage == Init /\ [][NextStorage]_vars

\* the two directory syncs against the external source, and the approval flag
NextSync ==
  \/ UserLogin
  \/ AdminApproval
  \/ ConfigApiKey
  \/ GetHospitals
  \/ ProbeReturns
  \/ FetchReturns
  \/ GetHospitalBeds
  \/ BedsProbeReturns
  \/ BedsFetchReturns

SpecSync == Init /\ [][NextSync]_vars

\* one hospital's inventory under bookings, the hospital's own updates and the
\* bed sync
NextInventory ==
  \/ UserLogin
  \/ CityRegister
  \/ HospitalLogin
  \/ AdminApproval
  \/ ConfigApiKey
  \/ BedsUpsertIcu
  \/ BookIcu
  \/ UserCancelOwn
  \/ HospitalDecides
  \/ GetHospitalBeds
  \/ BedsProbeReturns
  \/ BedsFetchIcu

SpecInventory == Init /\ [][NextInventory]_vars

\* one hospital, its beds and booking requests whose awaits are followed one by
\* one; no bed upsert and no sync
NextRequests ==
  \/ BetweenRequests(UserLogin)
  \/ BetweenRequests(CityRegister)
  \/ BetweenRequests(HospitalLogin)
  \/ BetweenRequests(AdminApproval)
  \/ BetweenRequests(BedsCreateFull)
  \/ BookingArrives
  \/ BookingResumes

SpecRequests == Init /\ [][NextRequests]_vars

\* the directory sync called again while earlier calls are suspended on the
\* external source
InitOverlap ==
  /\ storage = MemStorage
  /\ sessions = {}
  /\ apiKey = ""
  /\ calls = [c \in 1..OverlappingCalls |-> Idle]
  /\ listing = <<>>
  /\ bedListing = <<>>
  /\ requests = [r \in 1..MaxRequests |-> NoRequest]
  /\ running = 0

NextOverlap ==
  \/ UserLogin
  \/ ConfigApiKey
  \/ GetHospitals
  \/ ProbeReturns
  \/ FetchReturns

SpecOverlap == InitOverlap /\ [][NextOverlap]_vars

(***************************************************************************)
(* Properties                                                              *)
(***************************************************************************)
BedOfBooking(st, k) ==
  getBedByHospitalAndType(st, st.bookings[k].hospitalId, st.bookings[k].bedTypeId)

BookingsOfBed(st, b) == {k \in DOMAIN st.bookings : BedOfBooking(st, k) = b}

\* C1: as long as bed records are only created, booked against and given back
\* by cancellation, every bed record has 0 <= availableBeds <= totalBeds.
C1_CountsWithinTotal ==
  \A b \in DOMAIN storage.beds :
    /\ 0 <= storage.beds[b].availableBeds
    /\ storage.beds[b].availableBeds <= storage.beds[b].totalBeds

\* bookings were made against a bed that started full, and one was canceled
C1_Witness ==
  \E b \in DOMAIN storage.beds :
    /\ storage.beds[b].availableBeds = storage.beds[b].totalBeds - 1
    /\ \E k \in BookingsOfBed(storage, b) : storage.bookings[k].status = "canceled"
    /\ \E k \in BookingsOfBed(storage, b) : storage.bookings[k].status # "canceled"

\* C2: a booking request for a (hospital, bed type) that has no bed record or
\* whose record has availableBeds = 0 is answered with an error, and the store
\* (booking records, bed counts, counters) is what it was before the request.
C2_ExhaustedOrAbsentBedRefused ==
  \A s \in sessions, body \in BookingBodies(storage) :
    LET bed == getBedByHospitalAndType(storage, body.hospitalId, body.bedTypeId)
        r == PostBookings(storage, s, body)
    IN  (bed = 0 \/ storage.beds[bed].availableBeds = 0)
          => /\ r.res.status \in {400, 404}
             /\ r.st = storage

\* an approved hospital has one bed type booked out and another not on offer,
\* and a client is logged in
C2_Witness ==
  \E s \in sessions, body \in BookingBodies(storage), other \in BookingBodies(storage) :
    /\ PostBookings(storage, s, body).res = Res(400, "No beds available of this type")
    /\ BookingsOfBed(storage,
         getBedByHospitalAndType(storage, body.hospitalId, body.bedTypeId)) # {}
    /\ PostBookings(storage, s, other).res =
         Res(404, "Bed type not available at this hospital")

\* what a booking that enters pending and is then canceled twice by its owner
\* does to the store
C3_BookCancelCancel ==
  \A s \in sessions, body \in BookingBodies(storage) :
    LET id == storage.bookingCurrentId
        booked == PostBookings(storage, s, body)
        canceled == PatchUserBookingsCancel(booked.st, s, id)
        again == PatchUserBookingsCancel(canceled.st, s, id)
    IN  (booked.res.status = 201 /\ body.status = "")
          => /\ canceled.res.status = 200
             /\ canceled.st.beds = storage.beds
             /\ canceled.st.bookings[id].status = "canceled"
             /\ again.res.status = 400
             /\ again.st = canceled.st

\* a step raises a bed's availableBeds only by 1 and only while a pending
\* booking of that bed becomes canceled; a booking that left pending stays out
C3_RestoreStep ==
  /\ \A b \in DOMAIN storage.beds :
       storage'.beds[b].availableBeds > storage.beds[b].availableBeds
         => /\ storage'.beds[b].availableBeds = storage.beds[b].availableBeds + 1
            /\ Cardinality({k \in BookingsOfBed(storage, b) :
                              /\ storage.bookings[k].status = "pending"
                              /\ storage'.bookings[k].status = "canceled"}) = 1
  /\ \A k \in DOMAIN storage.bookings :
       storage.bookings[k].status # "pending"
         => storage'.bookings[k].status # "pending"

\* C3: booking and then canceling while pending puts availableBeds back to its
\* value before the booking; a second cancel is refused and changes nothing;
\* over any run a booking gives its bed back at most once.
C3_CancelRestoresOnce == [](C3_BookCancelCancel) /\ [][C3_RestoreStep]_vars

\* a canceled booking whose bed is full again
C3_Witness ==
  \E k \in DOMAIN storage.bookings :
    /\ storage.bookings[k].status = "canceled"
    /\ BedOfBooking(storage, k) # 0
    /\ storage.beds[BedOfBooking(storage, k)].availableBeds =
         storage.beds[BedOfBooking(storage, k)].totalBeds
    /\ serializeUser(storage.bookings[k].userId, FALSE) \in sessions

Statuses == {"pending", "approved", "rejected", "canceled"}

\* C4: updateBookingStatus changes no bed record unless it takes a pending
\* booking to canceled.
C4_OtherTransitionsKeepInventory ==
  \A k \in DOMAIN storage.bookings, status \in Statuses :
    ~(storage.bookings[k].status = "pending" /\ status = "canceled")
      => updateBookingStatus(storage, k, status).beds = storage.beds

\* a rejected and an approved booking, the bed still short of both
C4_Witness ==
  \E k \in DOMAIN storage.bookings, j \in DOMAIN storage.bookings :
    /\ storage.bookings[k].status = "rejected"
    /\ storage.bookings[j].status = "approved"
    /\ BedOfBooking(storage, k) = BedOfBooking(storage, j)
    /\ BedOfBooking(storage, k) # 0
    /\ storage.beds[BedOfBooking(storage, k)].availableBeds =
         storage.beds[BedOfBooking(storage, k)].totalBeds - 2

\* C5: with Bed(ICU: total = available = ScenarioBeds), ScenarioBeds bookings
\* leave available = 0, the next request is refused with "No beds available of
\* this type", and canceling one pending booking leaves available = 1.
C5_Scenario ==
  \A b \in DOMAIN storage.beds :
    LET bed == storage.beds[b]
        all == BookingsOfBed(storage, b)
        pending == {k \in all : storage.bookings[k].status = "pending"}
        request(s) == PostBookings(storage, s, ScenarioBookingBody)
    IN  (bed.hospitalId = 1 /\ bed.bedTypeId = 1 /\ bed.totalBeds = ScenarioBeds)
          => /\ (pending = all /\ Cardinality(all) < ScenarioBeds)
                  => /\ bed.availableBeds = ScenarioBeds - Cardinality(all)
                     /\ \A s \in sessions :
                          (1 \in DOMAIN storage.hospitals /\ storage.hospitals[1].approved)
                            => request(s).res.status = 201
             /\ (pending = all /\ Cardinality(all) = ScenarioBeds)
                  => /\ bed.availableBeds = 0
                     /\ \A s \in sessions :
                          /\ request(s).st = storage
                          /\ storage.hospitals[1].approved
                               => request(s).res =
                                    Res(400, "No beds available of this type")
                     /\ \A s \in sessions, k \in pending :
                          LET r == PatchUserBookingsCancel(storage, s, k)
                          IN  r.res.status = 200 => r.st.beds[b].availableBeds = 1
             /\ (Cardinality(all) = ScenarioBeds
                   /\ Cardinality(pending) = ScenarioBeds - 1)
                  => bed.availableBeds = 1

\* the bed is booked out and then one booking is canceled
C5_Witness ==
  \E b \in DOMAIN storage.beds :
    /\ storage.beds[b].totalBeds = ScenarioBeds
    /\ storage.beds[b].availableBeds = 1
    /\ Cardinality(BookingsOfBed(storage, b)) = ScenarioBeds
    /\ Cardinality({k \in BookingsOfBed(storage, b) :
                      storage.bookings[k].status = "canceled"}) = 1
    /\ storage.hospitals[1].approved
    /\ sessions # {}

\* C6: without an API key GET /api/hospitals answers with exactly the stored
\* hospitals whose approved flag is set, as stored, and writes nothing.
C6_NoKeyListsApprovedLocal ==
  [][(apiKey = "" /\ GetHospitals)
       => /\ storage' = storage
          /\ {listing'[i] : i \in DOMAIN listing'} =
               {storage.hospitals[h] : h \in {x \in DOMAIN storage.hospitals :
                                                storage.hospitals[x].approved}}
          /\ \A i, j \in DOMAIN listing' : i < j => listing'[i].id < listing'[j].id]_vars

\* a listing served from the store that holds approved and unapproved hospitals
C6_Witness ==
  /\ apiKey = ""
  /\ listing # <<>>
  /\ \E h \in DOMAIN storage.hospitals : ~storage.hospitals[h].approved
  /\ \A i \in DOMAIN listing : storage.hospitals[listing[i].id] = listing[i]

\* C7: however often the sync runs, each remote id has at most one local
\* hospital named hospital_<remoteId>.
C7_OneLocalHospitalPerRemoteId ==
  \A rid \in {"a", "A"} :
    Cardinality({h \in DOMAIN storage.hospitals :
                   storage.hospitals[h].username = "hospital_" \o rid}) <= 1

\* a later sync has found, and listed, a hospital that an earlier sync created
\* and the administrator has revoked since
C7_Witness ==
  \E i \in DOMAIN listing :
    /\ listing[i].password = "temporary_password"
    /\ ~listing[i].approved

\* C8: GET /api/hospitals never answers with a hospital whose approved flag is
\* false.
C8_ListingOnlyApproved ==
  \A i \in DOMAIN listing : listing[i].approved

\* C9: a hospital login establishes a session only for a hospital that is
\* approved at that moment; right credentials of an unapproved hospital get 403.
C9_LoginOnlyWhenApproved ==
  /\ [][\A s \in sessions' \ sessions :
          s.isHospital => storage.hospitals[s.id].approved]_vars
  /\ [](\A c \in HospitalCredentials :
          LET h == hospitalLocal(storage, c.username, c.password)
          IN  (h # 0 /\ ~storage.hospitals[h].approved)
                => HospitalLoginStatus(storage, c.username, c.password) = 403)

\* one hospital is logged in, another has the right credentials but no approval
C9_Witness ==
  /\ \E s \in sessions : s.isHospital /\ storage.hospitals[s.id].approved
  /\ \E c \in HospitalCredentials :
       LET h == hospitalLocal(storage, c.username, c.password)
       IN  /\ h # 0
           /\ ~storage.hospitals[h].approved
           /\ serializeUser(h, TRUE) \notin sessions

\* C10: createBed for a (hospitalId, bedTypeId) that already has a record
\* fails and leaves the store unchanged.
C10_CreateBedRefusesExistingPair ==
  \A h \in 1..2, body \in BedBodies :
    getBedByHospitalAndType(storage, h, body.bedTypeId) # 0
      => createBed(storage, [hospitalId |-> h, bedTypeId |-> body.bedTypeId,
                             totalBeds |-> body.totalBeds,
                             availableBeds |-> body.availableBeds]) = storage

\* ids that name no booking record
MissingBookingIds == (0..(storage.bookingCurrentId + 1)) \ DOMAIN storage.bookings

\* C12: updateBookingStatus of an id that names no booking returns undefined
\* and leaves every booking and bed record as it was, whatever the status; of
\* an id that names a booking it returns the record with the status asked for.
\* The route that calls it answers 404 for such an id.
C12_UnknownBookingNotFound ==
  /\ \A id \in MissingBookingIds, status \in StatusInputs \cup {"", "bogus"} :
       /\ updateBookingStatus(storage, id, status) = storage
       /\ updateBookingStatusReturn(storage, id, status) = 0
       /\ \A s \in sessions :
            /\ PatchHospitalBookings(storage, s, id, status).st = storage
            /\ status \in {"approved", "rejected", "canceled"}
                 => PatchHospitalBookings(storage, s, id, status).res =
                      Res(404, "Booking not found")
  /\ \A k \in DOMAIN storage.bookings, status \in StatusInputs \cup {"", "bogus"} :
       /\ updateBookingStatusReturn(storage, k, status) = k
       /\ updateBookingStatus(storage, k, status).bookings[k].status = status

\* the store holds a pending booking against a bed, and a logged-in client
\* asks for a status change of an id one past the last booking
C12_Witness ==
  /\ \E k \in DOMAIN storage.bookings :
       /\ storage.bookings[k].status = "pending"
       /\ BedOfBooking(storage, k) # 0
  /\ \E s \in sessions :
       PatchHospitalBookings(storage, s, storage.bookingCurrentId, "canceled").res =
         Res(404, "Booking not found")

\* C13: isApiAvailable is true exactly when a key is configured and GET /health
\* answers 200 (another answer or an exception gives false); without a key no
\* probe is sent, and a call goes on to fetch only after a probe with a key.
C13_AvailableOnlyWithKeyAndProbe ==
  /\ [](\A probe \in ProbeOutcomes :
          /\ isApiAvailable(apiKey, probe) <=> (apiKey # "" /\ probe = "200")
          /\ ~isApiAvailable("", probe))
  /\ [][\A c \in DOMAIN calls :
          /\ (calls'[c].pc = "probe" /\ calls[c].pc # "probe") => apiKey # ""
          /\ (calls'[c].pc = "fetch" /\ calls[c].pc # "fetch")
               => (apiKey # "" /\ calls[c].pc = "probe")
          /\ apiKey = "" => calls'[c] = Idle]_vars

\* a probe with a key has succeeded, after a listing was served from the store
C13_Witness ==
  /\ apiKey # ""
  /\ \E c \in DOMAIN calls : calls[c].pc = "fetch"
  /\ listing # <<>>

\* C18: a booking record created by POST /api/bookings has status pending right
\* after its creation, and every booking's status is one of the four.
C18_CreatedPending ==
  [][\A k \in DOMAIN storage'.bookings :
       /\ storage'.bookings[k].status \in Statuses
       /\ k \notin DOMAIN storage.bookings => storage'.bookings[k].status = "pending"]_vars

\* C19: POST /api/hospital/beds admits only a session of a hospital, and what
\* it creates or changes are bed records of that hospital only.
C19_BedsScopedToHospital ==
  \A s \in sessions, body \in BedBodies :
    LET r == PostHospitalBeds(storage, s, body)
    IN  /\ ~s.isHospital => (r.res.status \in {401, 403} /\ r.st = storage)
        /\ \A b \in DOMAIN r.st.beds :
             (b \notin DOMAIN storage.beds \/ r.st.beds[b] # storage.beds[b])
               => (s.isHospital /\ r.st.beds[b].hospitalId = s.id)

\* C11: a step that records a booking records exactly one, against a bed that
\* had a free place, and in the same step takes that bed's availableBeds down
\* by exactly 1 and changes no other count: no state in between exists for a
\* booking, a cancellation, a status update, a bed update or a sync to see.
C11_BookingDecrementsInStep ==
  [][\A k \in DOMAIN storage'.bookings \ DOMAIN storage.bookings :
       LET b == getBedByHospitalAndType(storage, storage'.bookings[k].hospitalId,
                                        storage'.bookings[k].bedTypeId)
       IN  /\ DOMAIN storage'.bookings = DOMAIN storage.bookings \cup {k}
           /\ b # 0
           /\ storage.beds[b].availableBeds > 0
           /\ storage'.beds =
                [storage.beds EXCEPT ![b].availableBeds = storage.beds[b].availableBeds - 1]
           /\ \A j \in DOMAIN storage.bookings :
                storage'.bookings[j] = storage.bookings[j]]_vars

\* a booking took the last available bed while a bed sync of that hospital was
\* suspended on the external source
C11_Witness ==
  \E k \in DOMAIN storage.bookings, c \in DOMAIN calls :
    /\ storage.bookings[k].status = "pending"
    /\ BedOfBooking(storage, k) # 0
    /\ storage.beds[BedOfBooking(storage, k)].availableBeds = 0
    /\ calls[c].pc = "bedsFetch"
    /\ calls[c].hospitalId = storage.bookings[k].hospitalId

\* entries of a remote bed list
ApiBedEntries ==
  {e \in [type : {"icu", "Burn"}, total : {1, MaxTotal}, available : 0..MaxTotal] :
     e.available \in {0, e.total}}

\* C15: after processHospitalBeds has handled a remote entry for a hospital,
\* the bed record of that hospital and the entry's bed type (matched ignoring
\* case, created if new) holds the entry's total and available, whatever it
\* held before and whatever bookings stand against it; no other bed record and
\* no booking changes, and getHospitalBeds returns the record so written.
C15_IngestionOverwrites ==
  \A h \in DOMAIN storage.hospitals, apiBed \in ApiBedEntries :
    LET r == processApiBed(storage, bedTypeMapOf(storage), h, apiBed)
        t == bedTypeMapGet(r.bedTypeMap, toLowerCase(apiBed.type))
        b == getBedByHospitalAndType(r.st, h, t)
        got == hospitalBedsFromApi(storage, h, [present |-> TRUE, beds |-> <<apiBed>>])
    IN  /\ t # 0
        /\ toLowerCase(r.st.bedTypes[t].name) = toLowerCase(apiBed.type)
        /\ b # 0
        /\ r.st.beds[b].totalBeds = apiBed.total
        /\ r.st.beds[b].availableBeds = apiBed.available
        /\ \A x \in DOMAIN storage.beds : x # b => r.st.beds[x] = storage.beds[x]
        /\ DOMAIN r.st.beds = DOMAIN storage.beds \cup {b}
        /\ r.st.bookings = storage.bookings
        /\ got.st = r.st
        /\ \E i \in DOMAIN got.beds : got.beds[i] = r.st.beds[b]

\* the latest bed listing shows a bed as full, as the remote source had it,
\* while all the bookings of the run stand pending against it
C15_Witness ==
  /\ apiKey # ""
  /\ \E i \in DOMAIN bedListing :
       LET b == bedListing[i].bed.id
       IN  /\ storage.beds[b] = bedListing[i].bed
           /\ storage.beds[b].availableBeds = storage.beds[b].totalBeds
           /\ Cardinality({k \in BookingsOfBed(storage, b) :
                             storage.bookings[k].status = "pending"}) = MaxBookings

\* C17: every bed record has 0 <= availableBeds <= totalBeds after every
\* mutation: a form-checked bed update, a booking, an approval, a rejection, a
\* cancellation, a sync of remote counts that are within their total.
C17_CountsWithinTotalAlways ==
  \A b \in DOMAIN storage.beds :
    storage.beds[b].availableBeds \in 0..storage.beds[b].totalBeds

\* C20: while a bed sync of a hospital is suspended on the external source, a
\* booking of a bed of that hospital is accepted and takes availableBeds down
\* by 1; when the sync then resumes with the remote detail, the bed holds the
\* remote counts and the booking is still pending: its decrement is gone.
C20_RaceLosesDecrement ==
  \A c \in DOMAIN calls, s \in UserSessions, body \in IcuBookingBodies(storage),
     data \in IcuDetails :
    (/\ calls[c].pc \in {"bedsProbe", "bedsFetch"}
     /\ calls[c].hospitalId = body.hospitalId
     /\ data.present)
      => LET id == storage.bookingCurrentId
             b == getBedByHospitalAndType(storage, body.hospitalId, body.bedTypeId)
             booked == PostBookings(storage, s, body)
             resumed == hospitalBedsFromApi(booked.st, body.hospitalId, data)
         IN  booked.res.status = 201
               => /\ booked.st.beds[b].availableBeds = storage.beds[b].availableBeds - 1
                  /\ resumed.st.bookings[id].status = "pending"
                  /\ resumed.st.beds[b].availableBeds = data.beds[1].available
                  /\ resumed.st.beds[b].totalBeds = data.beds[1].total

\* a bed stands full with a pending booking against it, and a bed sync of its
\* hospital is suspended again while the next booking can be made
C20_Witness ==
  \E c \in DOMAIN calls, s \in UserSessions, body \in IcuBookingBodies(storage) :
    LET b == getBedByHospitalAndType(storage, body.hospitalId, body.bedTypeId)
    IN  /\ calls[c].pc = "bedsFetch"
        /\ calls[c].hospitalId = body.hospitalId
        /\ PostBookings(storage, s, body).res.status = 201
        /\ storage.bookingCurrentId <= MaxBookings
        /\ storage.beds[b].availableBeds = storage.beds[b].totalBeds
        /\ \E k \in BookingsOfBed(storage, b) : storage.bookings[k].status = "pending"

\* the local hospital the sync takes a remote hospital for
LocalOf(st, apiHospital) == getHospitalByUsername(st, "hospital_" \o apiHospital.id)

\* hospital h has a bed record of the entry's bed type with the entry's counts
HoldsEntry(st, h, apiBed) ==
  \E b \in DOMAIN st.beds :
    /\ st.beds[b].hospitalId = h
    /\ toLowerCase(st.bedTypes[st.beds[b].bedTypeId].name) = toLowerCase(apiBed.type)
    /\ st.beds[b].totalBeds = apiBed.total
    /\ st.beds[b].availableBeds = apiBed.available

\* C14: when the source is available and getHospitalsByLocation runs through
\* without an error, every remote hospital that had no local record before the
\* call has one afterwards, approved, with a bed record per remote bed entry
\* that holds the entry's total and available.
C14_NewRemoteHospitalsIngested ==
  \A c \in DOMAIN calls, data \in ApiResponses :
    (calls[c].pc = "fetch" /\ ~hospitalsLoop(storage, data).threw)
      => \A i \in DOMAIN data :
           LocalOf(storage, data[i]) = 0
             => LET after == hospitalsLoop(storage, data).st
                    h == LocalOf(after, data[i])
                IN  /\ h # 0
                    /\ after.hospitals[h].approved
                    /\ \A j \in DOMAIN data[i].beds : HoldsEntry(after, h, data[i].beds[j])

\* C16: an exception of the fetch, or of the processing of what it brought,
\* does not leave getHospitalsByLocation or getHospitalBeds: the call ends and
\* returns the approved hospitals, respectively the hospital's bed records, of
\* the store at that moment (what was ingested before the exception included).
C16_FetchErrorsFallBack ==
  /\ [](/\ hospitalsAfterFetch(storage, TRUE, <<>>) =
             [st |-> storage, hospitals |-> getApprovedHospitals(storage)]
        /\ \A data \in ApiResponses :
             LET loop == hospitalsLoop(storage, data)
             IN  loop.threw
                   => hospitalsAfterFetch(storage, FALSE, data) =
                        [st |-> loop.st, hospitals |-> getApprovedHospitals(loop.st)]
        /\ \A h \in DOMAIN storage.hospitals :
             hospitalBedsAfterFetch(storage, h, TRUE, NoData) =
               [st |-> storage, beds |-> getBedsByHospital(storage, h)])
  /\ [][\A c \in DOMAIN calls :
          (calls[c].pc \in {"fetch", "bedsFetch"} /\ calls'[c] # calls[c])
            => calls'[c] = Idle]_vars

\* with a key set and a hospital ingested, a bed sync is suspended on its
\* fetch, after a listing; a payload with a broken entry would now ingest
\* nothing new and throw
C16_Witness ==
  /\ apiKey # ""
  /\ listing # <<>>
  /\ \E c \in DOMAIN calls :
       /\ calls[c].pc = "bedsFetch"
       /\ getBedsByHospital(storage, calls[c].hospitalId) # <<>>
  /\ \E data \in ApiResponses :
       /\ hospitalsLoop(storage, data).threw
       /\ hospitalsLoop(storage, data).hospitals # <<>>
(***************************************************************************)
(* Booking requests followed await by await                                *)
(***************************************************************************)
\* the requests answered 201 or 400: those that found bed record b and went on
\* to its availability test
RequestsAgainst(b) ==
  {r \in 1..MaxRequests :
     /\ requests[r].pc = "done"
     /\ requests[r].status \in {201, 400}
     /\ getBedByHospitalAndType(storage, requests[r].body.hospitalId,
                                requests[r].body.bedTypeId) = b}

\* C21: booking requests against one bed do not interleave destructively.
\* Whenever no booking request is between two of its awaits, of the k requests
\* made against a bed declared with n available beds (and never upserted or
\* synced) exactly min(k, n) were answered 201, the bed has n - min(k, n)
\* available beds left, and the count has gone down by one for every booking
\* record created.
C21_BookingRequestsTakeMin ==
  (\A r \in 1..MaxRequests : requests[r].pc \in {"idle", "done"}) =>
    \A b \in DOMAIN storage.beds :
      LET k == Cardinality(RequestsAgainst(b))
          n == storage.beds[b].totalBeds
          created == {r \in RequestsAgainst(b) : requests[r].status = 201}
      IN  /\ Cardinality(created) = Min({k, n})
          /\ storage.beds[b].availableBeds = n - Min({k, n})
          /\ n - storage.beds[b].availableBeds
               = Cardinality(BookingsOfBed(storage, b))

\* more requests than beds: a bed declared with one available bed, two requests
\* made against it and both answered, one of them with 400
C21_Witness ==
  \E b \in DOMAIN storage.beds :
    /\ storage.beds[b].totalBeds = 1
    /\ Cardinality(RequestsAgainst(b)) = 2
    /\ \E r \in RequestsAgainst(b) : requests[r].status = 400
    /\ \E r \in RequestsAgainst(b) : requests[r].status = 201

(***************************************************************************)
(* Uniqueness of bed records                                               *)
(***************************************************************************)
OneBedPerPair(st) ==
  \A b1, b2 \in DOMAIN st.beds :
    (st.beds[b1].hospitalId = st.beds[b2].hospitalId
       /\ st.beds[b1].bedTypeId = st.beds[b2].bedTypeId) => b1 = b2

\* C22: while bed records are written by POST /api/hospital/beds and by the
\* sync's processHospitalBeds only, sequentially or with the upsert handled
\* while a sync call is suspended, there is at most one bed record for each
\* pair (hospitalId, bedTypeId), and one more upsert of either bed type or one
\* more ingestion of any payload (one that names a bed type twice included)
\* keeps it so.
C22_OneBedPerHospitalAndType ==
  /\ OneBedPerPair(storage)
  /\ \A s \in sessions, body \in FullBedBodies :
       OneBedPerPair(PostHospitalBeds(storage, s, body).st)
  /\ \A h \in DOMAIN storage.hospitals, l \in ApiBedLists \cup DoubledBedLists :
       OneBedPerPair(processHospitalBeds(storage, h, l))

\* the hospital has upserted its ICU record to no available bed while a bed
\* sync of the hospital is suspended on its fetch: the ingestion to come finds
\* the record
C22_Witness ==
  /\ \E c \in DOMAIN calls : calls[c] = [pc |-> "bedsFetch", hospitalId |-> 1]
  /\ getBedByHospitalAndType(storage, 1, 1) # 0
  /\ storage.beds[getBedByHospitalAndType(storage, 1, 1)].availableBeds = 0
  /\ BookingsOfBed(storage, getBedByHospitalAndType(storage, 1, 1)) = {}
  /\ bedListing # <<>>

(***************************************************************************)
(* Approval                                                                *)
(***************************************************************************)
\* the store with one more hospital registered
WithSecondHospital(st) ==
  PostHospitalsRegister(st, [username |-> "hospital_a", password |-> "pw"]).st

\* C23: PATCH /api/admin/hospitals/:id/approve and .../reject, sent by any
\* session for any hospital id, leave every bed, booking, user and bed type and
\* every other hospital as they are and change at most the approved flag of
\* the hospital named; a revocation followed by an approval of an approved
\* hospital gives back the store as it was.
C23_ApprovalChangesFlagOnly ==
  \A st \in {storage, WithSecondHospital(storage)} :
    \A s \in sessions \cup {NoSession}, h \in 1..st.hospitalCurrentId :
      /\ \A approved \in BOOLEAN :
           LET after == PatchAdminHospitals(st, s, h, approved).st
           IN  /\ after.beds = st.beds
               /\ after.bookings = st.bookings
               /\ after.users = st.users
               /\ after.bedTypes = st.bedTypes
               /\ DOMAIN after.hospitals = DOMAIN st.hospitals
               /\ \A g \in DOMAIN st.hospitals :
                    /\ g # h => after.hospitals[g] = st.hospitals[g]
                    /\ after.hospitals[g].username = st.hospitals[g].username
                    /\ after.hospitals[g].password = st.hospitals[g].password
               /\ (isAdmin(st, s) /\ h \in DOMAIN st.hospitals)
                    => after.hospitals[h].approved = approved
               /\ after.hospitalCurrentId = st.hospitalCurrentId
               /\ after.bookingCurrentId = st.bookingCurrentId
               /\ after.bedCurrentId = st.bedCurrentId
      /\ (h \in DOMAIN st.hospitals /\ st.hospitals[h].approved)
           => PatchAdminHospitals(PatchAdminHospitals(st, s, h, FALSE).st,
                                  s, h, TRUE).st = st

\* the admin is logged in and the approved hospital has a pending booking
\* against a bed record of its own
C23_Witness ==
  /\ \E s \in sessions : isAdmin(storage, s)
  /\ \E k \in DOMAIN storage.bookings :
       /\ storage.bookings[k].status = "pending"
       /\ storage.hospitals[storage.bookings[k].hospitalId].approved
       /\ BedOfBooking(storage, k) # 0
       /\ storage.beds[BedOfBooking(storage, k)].availableBeds
            < storage.beds[BedOfBooking(storage, k)].totalBeds

(***************************************************************************)
(* Ownership of bookings                                                   *)
(***************************************************************************)
\* the session is the login of the user who made booking k
OwnsAsUser(st, s, k) ==
  /\ ~s.isHospital
  /\ k \in DOMAIN st.bookings
  /\ st.bookings[k].userId = s.id

\* the session is the login of the hospital booking k was made at
OwnsAsHospital(st, s, k) ==
  /\ s.isHospital
  /\ k \in DOMAIN st.bookings
  /\ st.bookings[k].hospitalId = s.id

\* C24: PATCH /api/user/bookings/:id/cancel changes a booking only for the
\* session of the user who made it, and PATCH /api/hospital/bookings/:id only
\* for the session of the hospital it was made at; any other session is refused
\* and the store is left as it is.
C24_OnlyOwnersChangeBookings ==
  \A s \in sessions \cup {NoSession}, k \in BookingIds(storage) :
    /\ ~OwnsAsUser(storage, s, k) =>
         /\ PatchUserBookingsCancel(storage, s, k).st = storage
         /\ PatchUserBookingsCancel(storage, s, k).res.status \in {401, 403, 404}
    /\ ~OwnsAsHospital(storage, s, k) =>
         \A status \in StatusInputs :
           /\ PatchHospitalBookings(storage, s, k, status).st = storage
           /\ PatchHospitalBookings(storage, s, k, status).res.status
                \in {400, 401, 403, 404}

(***************************************************************************)
(* Bed types                                                               *)
(***************************************************************************)
UniqueBedTypeNames(st) ==
  \A i, j \in DOMAIN st.bedTypes :
    toLowerCase(st.bedTypes[i].name) = toLowerCase(st.bedTypes[j].name) => i = j

\* C25: through any sequence of sync ingestions, whatever the payloads (a type
\* named twice in two spellings, a type that is a default up to case), no two
\* bed types have the same name up to case, and one more ingestion of any
\* payload keeps it so.
C25_BedTypeNamesUniqueUpToCase ==
  /\ UniqueBedTypeNames(storage)
  /\ \A h \in DOMAIN storage.hospitals, l \in ApiBedLists \cup DoubledBedLists :
       UniqueBedTypeNames(processHospitalBeds(storage, h, l))

\* the payload <<Burn, burn>> has been ingested: the one Burn type and the one
\* bed record of it, which carries the counts of the entry spelled burn
C25_Witness ==
  \E b \in DOMAIN storage.beds :
    /\ storage.bedTypes[storage.beds[b].bedTypeId].name = "Burn"
    /\ storage.beds[b].totalBeds = MaxTotal
    /\ storage.beds[b].availableBeds = 0

(***************************************************************************)
(* The directory sync and the hospitals it finds                           *)
(***************************************************************************)
BedIdsOf(st, h) == {b \in DOMAIN st.beds : st.beds[b].hospitalId = h}

\* C26: whatever /hospitals answers, getHospitalsByLocation leaves a hospital
\* it finds in the store as it is, approved or not, and leaves its bed records
\* as they are; when it finds every entry of the answer it writes nothing.
C26_FoundHospitalsNotWritten ==
  \A data \in ApiResponses :
    LET after == hospitalsAfterFetch(storage, FALSE, data).st
    IN  /\ \A i \in DOMAIN data :
             LET h == LocalOf(storage, data[i])
             IN  h # 0 =>
                   /\ after.hospitals[h] = storage.hospitals[h]
                   /\ BedIdsOf(after, h) = BedIdsOf(storage, h)
                   /\ \A b \in BedIdsOf(storage, h) : after.beds[b] = storage.beds[b]
        /\ (\A i \in DOMAIN data : LocalOf(storage, data[i]) # 0) => after = storage

\* a hospital the sync created has bed records and has been revoked since, and
\* a directory sync is suspended on its fetch
C26_Witness ==
  /\ \E c \in DOMAIN calls : calls[c].pc = "fetch"
  /\ \E h \in DOMAIN storage.hospitals :
       /\ storage.hospitals[h].password = "temporary_password"
       /\ ~storage.hospitals[h].approved
       /\ BedIdsOf(storage, h) # {}

(***************************************************************************)
(* Conservation of the inventory                                           *)
(***************************************************************************)
\* the bookings a step creates against bed record b
CreatedFor(b) ==
  {k \in DOMAIN storage'.bookings \ DOMAIN storage.bookings :
     BedOfBooking(storage', k) = b}

\* the bookings of bed record b a step cancels while they are pending
CanceledWhilePending(b) ==
  {k \in BookingsOfBed(storage, b) :
     storage.bookings[k].status = "pending"
       /\ storage'.bookings[k].status = "canceled"}

\* C27: while bed records are created and never upserted or synced, every step
\* changes the availableBeds of every bed record by minus the bookings it
\* creates against the record plus the bookings of the record it cancels while
\* pending, so that the count stays at its first value minus the bookings ever
\* created plus those canceled while pending; approving, rejecting, and
\* changing a rejected or approved booking afterwards give nothing back.
C27_InventoryConserved ==
  [][storage' # storage =>
       \A b \in DOMAIN storage.beds :
         storage'.beds[b].availableBeds =
           storage.beds[b].availableBeds - Cardinality(CreatedFor(b))
             + Cardinality(CanceledWhilePending(b))]_vars

\* every bed of a record was booked; one booking was rejected and the other
\* was canceled after it had been decided: no bed has come back
C27_Witness ==
  \E b \in DOMAIN storage.beds :
    /\ storage.beds[b].availableBeds = 0
    /\ storage.beds[b].totalBeds = MaxTotal
    /\ \E k, j \in BookingsOfBed(storage, b) :
         /\ storage.bookings[k].status = "rejected"
         /\ storage.bookings[j].status = "canceled"

(***************************************************************************)
(* Revocation and live sessions                                            *)
(***************************************************************************)
\* the sessions of hospitals whose approval is revoked at present
RevokedSessions(st) ==
  {s \in HospitalSessions :
     s.id \in DOMAIN st.hospitals /\ ~st.hospitals[s.id].approved}

\* C28: while a hospital's approved flag is false, a session of that hospital,
\* opened while it was approved, does not pass the guards of the hospital
\* routes: the listings are refused, and the bed upsert and the booking status
\* update are refused and leave the store as it is.
C28_RevokedHospitalRefused ==
  \A s \in RevokedSessions(storage) :
    /\ ~(isAuthenticated(storage, s) /\ isHospital(storage, s))
    /\ \A body \in BedBodies :
         /\ PostHospitalBeds(storage, s, body).res.status \in {401, 403}
         /\ PostHospitalBeds(storage, s, body).st = storage
    /\ \A k \in BookingIds(storage), status \in StatusInputs :
         /\ PatchHospitalBookings(storage, s, k, status).res.status \in {401, 403}
         /\ PatchHospitalBookings(storage, s, k, status).st = storage

(***************************************************************************)
(* No negative count                                                       *)
(***************************************************************************)
NoNegativeCount(st) == \A b \in DOMAIN st.beds : st.beds[b].availableBeds >= 0

\* C29: with upserts and remote snapshots that carry availableBeds >= 0, no bed
\* record has a negative availableBeds, in any state reached by bookings,
\* cancellations, hospital decisions, upserts and syncs that overwrite while
\* others are suspended, nor after one more booking, cancellation or decision
\* sent by any session.
C29_AvailableNeverNegative ==
  /\ NoNegativeCount(storage)
  /\ \A s \in sessions :
       /\ \A body \in BookingBodies(storage) :
            NoNegativeCount(PostBookings(storage, s, body).st)
       /\ \A k \in DOMAIN storage.bookings :
            /\ NoNegativeCount(PatchUserBookingsCancel(storage, s, k).st)
            /\ \A status \in StatusInputs :
                 NoNegativeCount(PatchHospitalBookings(storage, s, k, status).st)

\* the last ICU bed is booked and the booking is pending while a bed sync of
\* the hospital is suspended on its fetch and an earlier one has answered
C29_Witness ==
  /\ \E c \in DOMAIN calls : calls[c].pc = "bedsFetch"
  /\ bedListing # <<>>
  /\ \E k \in DOMAIN storage.bookings :
       /\ storage.bookings[k].status = "pending"
       /\ BedOfBooking(storage, k) # 0
       /\ storage.beds[BedOfBooking(storage, k)].availableBeds = 0

(***************************************************************************)
(* Overlapping directory syncs                                             *)
(***************************************************************************)
\* /hospitals answers every entry of which transformHospitalData accepts
WellFormedResponses ==
  {data \in ApiResponses : \A i \in DOMAIN data : ~transformThrows(data[i])}

\* the hospitals whose username is hospital_<remoteId>
NamedAfter(st, remoteId) ==
  {h \in DOMAIN st.hospitals : st.hospitals[h].username = "hospital_" \o remoteId}

\* C30: when two getHospitalsByLocation calls are suspended on the fetch and
\* each receives an answer that holds the same remote id, of which the store
\* has no hospital yet, then after both have run to their responses there is
\* exactly one hospital with username hospital_<remoteId>, and one bed record
\* per bed type of that hospital.
C30_OverlappingSyncsCreateOne ==
  Cardinality({c \in DOMAIN calls : calls[c].pc = "fetch"}) >= 2 =>
    \A data1, data2 \in WellFormedResponses :
      \A i \in DOMAIN data1, j \in DOMAIN data2 :
        (data1[i].id = data2[j].id /\ NamedAfter(storage, data1[i].id) = {}) =>
          LET first == hospitalsAfterFetch(storage, FALSE, data1).st
              after == hospitalsAfterFetch(first, FALSE, data2).st
          IN  /\ Cardinality(NamedAfter(after, data1[i].id)) = 1
              /\ OneBedPerPair(after)

====
